---- MODULE Spec2Model ----
(***************************************************************************)
(* Model of wbclean.py: the four entry points to_flourish, get_wb_data,    *)
(* plot_line_chart and plot_bar_chart, the tables they build, the files    *)
(* they hand to the persistence sink and the module global indicator_name. *)
(*                                                                         *)
(* Strings that the code compares or sorts (region names, year labels) are *)
(* sequences of code points, so that sorting and max() work as Python's    *)
(* string comparison does.  Indicator values are fixed-point numbers in    *)
(* tenths (15 stands for 1.5); NaN stands for a missing value.             *)
(***************************************************************************)
EXTENDS Integers, Sequences, FiniteSets, TLC

VARIABLES source, country_info, indicator_name, files, written, call, status,
          df_merged, temp_df, chart

vars == <<source, country_info, indicator_name, files, written, call, status,
          df_merged, temp_df, chart>>

-----------------------------------------------------------------------------
(* Bounds of the model *)

\* number of consecutive years the remote source holds
NumYears == 2

\* number of years, ending today, the remote client asks for when start and end are None
DefaultYears == 2

FirstYear == 2010

Years == FirstYear .. (FirstYear + NumYears - 1)

Today == FirstYear + NumYears - 1

\* a missing value (null in the remote source's answer, NaN in a frame)
NaN == -1

\* the non-missing indicator values, in tenths
Values == {15, 25}

\* the value the code compares year with: plot_bar_chart(year=None)
None == 0

\* "Canada", "World": the location names of the observations
Canada == <<67, 97, 110, 97, 100, 97>>

World == <<87, 111, 114, 108, 100>>

\* "Chad": a location the metadata knows and the observations do not
Chad == <<67, 104, 97, 100>>

ObsNames == {Canada, World}

Indicators == {"SP.POP.TOTL", "NY.GDP.MKTP.CD"}

\* the digits of places of the bar chart's labels
Decimals == {0, 1}

\* the rows wb.get_countries() can return, in the order it returns them
MetaRows == << [iso2c |-> "CA", name |-> Canada, region |-> "North America"],
               [iso2c |-> "1W", name |-> World,  region |-> "Aggregates"],
               [iso2c |-> "TD", name |-> Chad,   region |-> "Sub-Saharan Africa"] >>

\* the value of indicator_name before get_wb_data first assigns it
Undefined == "<undefined>"

-----------------------------------------------------------------------------
(* Python values *)

\* str(n) of a natural number, as code points
RECURSIVE str(_)
str(n) == IF n < 10 THEN <<48 + n>> ELSE Append(str(n \div 10), 48 + (n % 10))

\* a < b on Python strings
RECURSIVE StrLess(_, _)
StrLess(a, b) ==
    IF a = <<>> THEN b # <<>>
    ELSE IF b = <<>> THEN FALSE
    ELSE IF Head(a) = Head(b) THEN StrLess(Tail(a), Tail(b))
    ELSE Head(a) < Head(b)

StrLeq(a, b) == a = b \/ StrLess(a, b)

SeqToSet(s) == {s[i] : i \in DOMAIN s}

\* the sub-sequence of s at the positions in keep
RECURSIVE SubSeqAt(_, _)
SubSeqAt(s, keep) ==
    IF s = <<>> THEN <<>>
    ELSE LET rest == SubSeqAt(Tail(s), {i - 1 : i \in keep \ {1}})
         IN  IF 1 \in keep THEN <<Head(s)>> \o rest ELSE rest

\* the location-metadata tables: MetaRows with any of its rows left out
AllMetas == {SubSeqAt(MetaRows, keep) : keep \in SUBSET (1 .. Len(MetaRows))}

\* the observation sets of a source that holds one indicator: a value or null
\* per location and year
AllSources == [{"SP.POP.TOTL"} \X ObsNames \X Years -> Values \cup {NaN}]

\* the observation sets of a source that holds both indicators for one location
\* and one year, the population known
SmallSources ==
    {s \in [Indicators \X {Canada} \X {FirstYear} -> Values \cup {NaN}] :
        s[<<"SP.POP.TOTL", Canada, FirstYear>>] = 15}

\* the indicators, the locations and the years the remote source holds
HeldIndicators == {c[1] : c \in DOMAIN source}

HeldNames == {c[2] : c \in DOMAIN source}

HeldYears == {c[3] : c \in DOMAIN source}

\* SP.POP.TOTL-like data with one gap: Canada has no value for the last year
DemoSource == [c \in {"SP.POP.TOTL"} \X ObsNames \X Years |->
                 IF c[2] = Canada /\ c[3] = Today THEN NaN
                 ELSE IF c[2] = Canada THEN 15 ELSE 25]

-----------------------------------------------------------------------------
(* The remote indicator source: pandas_datareader.wb *)

\* the years a request for start..end covers; None is the client's default range
RequestYears(start, end) ==
    LET lo == IF start = None THEN Today - DefaultYears + 1 ELSE start
        hi == IF end = None THEN Today ELSE end
    IN  {y \in HeldYears : lo <= y /\ y <= hi}

\* wb.download(indicator, country, start, end): a frame indexed by (country, year),
\* the year a string, with one value column named after the indicator
download(indicator, country, start, end) ==
    {[country |-> n, year |-> str(y), value |-> source[<<indicator, n, y>>]] :
        n \in country \cap HeldNames, y \in RequestYears(start, end)}

\* wb.get_countries()
get_countries == country_info

-----------------------------------------------------------------------------
(* pandas *)

\* dropna() left out: the rows with a missing value stay
NoDropna(rows) == rows

\* DataFrame.dropna()
dropna(rows) == {r \in rows : r.value # NaN}

\* temp_df.index.names = ['Region', 'Year']
rename_index(rows) ==
    {[Region |-> r.country, Year |-> r.year, value |-> r.value] : r \in rows}

\* sort_values left out: every order of the rows
RECURSIVE Unsorted(_)
Unsorted(rows) ==
    IF rows = {} THEN {<<>>}
    ELSE UNION {{<<r>> \o t : t \in Unsorted(rows \ {r})} : r \in rows}

\* sort_values(by='Region'): quicksort is not stable, so every order of the
\* rows in which the regions do not decrease is a possible result
RECURSIVE sort_values_Region(_)
sort_values_Region(rows) ==
    IF rows = {} THEN {<<>>}
    ELSE UNION {{<<r>> \o t : t \in sort_values_Region(rows \ {r})} :
                   r \in {x \in rows : \A y \in rows : StrLeq(x.Region, y.Region)}}

\* sort_values(by=indicator, ascending=False): every order in which the
\* values do not increase
RECURSIVE sort_values_desc(_)
sort_values_desc(rows) ==
    IF rows = {} THEN {<<>>}
    ELSE UNION {{<<r>> \o t : t \in sort_values_desc(rows \ {r})} :
                   r \in {x \in rows : \A y \in rows : x.value >= y.value}}

\* the year labels of a set of columns, ascending
RECURSIVE SortedYears(_)
SortedYears(cols) ==
    IF cols = {} THEN <<>>
    ELSE LET m == CHOOSE x \in cols : \A y \in cols : StrLeq(x, y)
         IN  <<m>> \o SortedYears(cols \ {m})

\* pd.pivot_table(df, values=indicator, columns='year', index='country'):
\* the mean of each (country, year) group, groups without a value dropped,
\* NaN where a kept country has no value for a kept year
pivot_table(rows) ==
    LET kept == {r \in rows : r.value # NaN}
        cols == {r.year : r \in kept}
    IN  {[country |-> c,
          values  |-> [y \in cols |->
                         IF \E r \in kept : r.country = c /\ r.year = y
                         THEN (CHOOSE r \in kept : r.country = c /\ r.year = y).value
                         ELSE NaN]] : c \in {r.country : r \in kept}}

\* the filter on region left out
KeepAggregates(ci) == ci

\* country_info[country_info.region != 'Aggregates']
drop_aggregates(ci) == SelectSeq(ci, LAMBDA m : m.region # "Aggregates")

\* a row of the merged frame: the metadata columns, then the pivot's columns
Joined(m, p) ==
    [iso2c |-> m.iso2c, name |-> m.name, region |-> m.region,
     country |-> p.country, values |-> p.values]

\* the rows an inner merge makes of metadata row m
Matches(m, right) == {p \in right : p.country = m.name}

RECURSIVE merge_inner(_, _)
merge_inner(left, right) ==
    IF left = <<>> THEN <<>>
    ELSE LET m == Head(left)
         IN  (IF Matches(m, right) = {} THEN <<>>
              ELSE <<Joined(m, CHOOSE p \in Matches(m, right) : TRUE)>>)
             \o merge_inner(Tail(left), right)

\* how='left': a metadata row without observations is kept, its values missing
RECURSIVE merge_left(_, _)
merge_left(left, right) ==
    IF left = <<>> THEN <<>>
    ELSE LET m    == Head(left)
             cols == UNION {DOMAIN p.values : p \in right}
             row  == IF Matches(m, right) = {}
                     THEN Joined(m, [country |-> <<>>, values |-> [y \in cols |-> NaN]])
                     ELSE Joined(m, CHOOSE p \in Matches(m, right) : TRUE)
         IN  <<row>> \o merge_left(Tail(left), right)

\* the observation rows no metadata row matches, by name
RECURSIVE Unmatched(_, _)
Unmatched(left, right) ==
    LET rest == {p \in right : \A i \in DOMAIN left : left[i].name # p.country}
    IN  IF rest = {} THEN <<>>
        ELSE LET p == CHOOSE x \in rest : \A y \in rest : StrLeq(x.country, y.country)
             IN  <<Joined([iso2c |-> "", name |-> p.country, region |-> ""], p)>>
                 \o Unmatched(left \o <<[iso2c |-> "", name |-> p.country, region |-> ""]>>, right)

\* how='outer' on the observations' side: an unmatched observation row is kept,
\* its metadata fields blank
merge_outer(left, right) == merge_inner(left, right) \o Unmatched(left, right)

\* pd.merge(country_info[['iso2c', 'name', 'region']], df, left_on='name',
\* right_on='country'): an inner join, in the order of the left rows
merge(left, right) == merge_inner(left, right)

\* the flag's address of a short code
ImageURL(i) == <<"https://www.countryflags.io/", i, "/flat/64.png">>

\* insert(3, 'Image URL', ...) and drop(columns=['iso2c', 'country'])
RECURSIVE flourish_columns(_)
flourish_columns(rows) ==
    IF rows = <<>> THEN <<>>
    ELSE LET r == Head(rows)
         IN  <<[name |-> r.name, region |-> r.region, ImageURL |-> ImageURL(r.iso2c),
                values |-> r.values]>> \o flourish_columns(Tail(rows))

-----------------------------------------------------------------------------
(* Files *)

NoName == <<>>

NoWrite == [name |-> NoName, header |-> <<>>, rows |-> <<>>]

\* the names of the files; the timestamp of a csv name is the minute of the
\* call, and the calls of a run fall in one minute
FlourishCsv(indicator) == <<"flourish_data/flourish_", indicator, ".csv">>

IndicatorCsv(indicator) == <<indicator, ".csv">>

LinePng == <<"Graph", "_line.png">>

BarPng == <<"Graph", "_bar.png">>

\* df_merged.to_csv(name, index=False): the columns, no index
flourish_to_csv(name, rows) ==
    LET cols == IF rows = <<>> THEN <<>> ELSE SortedYears(DOMAIN rows[1].values)
    IN  [name   |-> name,
         header |-> <<"name", "region", "Image URL">> \o cols,
         rows   |-> [i \in DOMAIN rows |->
                       <<rows[i].name, rows[i].region, rows[i].ImageURL>>
                       \o [j \in DOMAIN cols |-> rows[i].values[cols[j]]]]]

\* temp_df.to_csv(name, index=index): the index, when asked for, then the columns
to_csv(name, frame, index) ==
    [name   |-> name,
     header |-> (IF index THEN frame.index ELSE <<>>) \o frame.columns,
     rows   |-> [i \in DOMAIN frame.rows |->
                   (IF index THEN <<frame.rows[i].Year>> ELSE <<>>)
                   \o <<frame.rows[i].Region, frame.rows[i].value>>]]

\* the write made before the steps that can raise
WritesDespiteError(save, fault, content) ==
    IF save THEN content ELSE NoWrite

\* what a call hands to the sink: "if save_csv: ...to_csv(...)" and "if save:
\* plt.savefig(...)" are reached only when nothing before them raised, and a
\* sink that cannot open its path creates nothing
save_file(save, fault, content) ==
    IF save /\ fault = "none" THEN content ELSE NoWrite

\* the files on disk once the sink has taken a write
disk_after(disk, write) ==
    IF write.name = NoName THEN disk ELSE disk \cup {write.name}

-----------------------------------------------------------------------------
(* Frames and charts *)

NoFrame == [index |-> <<>>, columns |-> <<>>, rows |-> <<>>]

NoChart == [kind |-> "none", points |-> {}, bars |-> <<>>, labels |-> <<>>,
            shown |-> FALSE]

\* reset_index(level=0): the first index level becomes the first column
reset_index_level0(index, columns) ==
    [index |-> Tail(index), columns |-> <<Head(index)>> \o columns]

\* the frames get_wb_data can return for a request: lines 47 to 50
GetWbData(indicator, country, start, end) ==
    LET rows  == rename_index(dropna(download(indicator, country, start, end)))
        shape == reset_index_level0(<<"Region", "Year">>, <<indicator>>)
    IN  {[index |-> shape.index, columns |-> shape.columns, rows |-> s] :
           s \in sort_values_Region(rows)}

\* "nan": str() of the max() of an empty index
NanStr == <<110, 97, 110>>

\* df.index.min()
index_min(rows) ==
    IF rows = <<>> THEN NanStr
    ELSE rows[CHOOSE i \in DOMAIN rows :
                \A j \in DOMAIN rows : StrLeq(rows[i].Year, rows[j].Year)].Year

\* df.index.max()
index_max(rows) ==
    IF rows = <<>> THEN NanStr
    ELSE rows[CHOOSE i \in DOMAIN rows :
                \A j \in DOMAIN rows : StrLeq(rows[j].Year, rows[i].Year)].Year

\* the default taken from the earliest year of the frame
EarliestYear(year, rows) == IF year = None THEN index_min(rows) ELSE str(year)

\* if year == None: year = df.index.max(); then str(year)
default_year(year, rows) == IF year = None THEN index_max(rows) ELSE str(year)

\* numpy's round of a value in tenths to 0 or to 1 and more decimals: half to even
round(v, decimals) ==
    IF decimals >= 1 THEN v
    ELSE LET q == v \div 10
             r == v % 10
         IN  IF r < 5 THEN 10 * q
             ELSE IF r > 5 THEN 10 * (q + 1)
             ELSE IF q % 2 = 0 THEN 10 * q ELSE 10 * (q + 1)

Reverse(s) == [i \in DOMAIN s |-> s[Len(s) + 1 - i]]

\* the labels sorted with ascending=True
AscendingLabels(rows, decimals) ==
    LET s == CHOOSE t \in sort_values_desc(rows) : TRUE
    IN  Reverse([i \in DOMAIN s |-> round(s[i].value, decimals)])

\* df[indicator].sort_values(ascending=False).values.round(decimals)
label_values(rows, decimals) ==
    LET s == CHOOSE t \in sort_values_desc(rows) : TRUE
    IN  [i \in DOMAIN s |-> round(s[i].value, decimals)]

\* the assignment to the global left out
KeepsIndicatorName(old, indicator) == old

\* global indicator_name; indicator_name = indicator
set_indicator_name(old, indicator) == indicator

-----------------------------------------------------------------------------
(* The entry points *)

\* the location selectors of a call: 'all', or the code of one location
Selectors == {HeldNames} \cup {{n} : n \in HeldNames}

\* the exception a call ends with, given the external call that raised
Raised(fault) ==
    CASE fault \in {"download", "get_countries"} -> "DataUnavailable"
      [] fault \in {"to_csv", "savefig"}         -> "IOFailure"
      [] OTHER                                    -> "ok"

Call(op, indicator, start, end, country, save, decimals, fault) ==
    [op |-> op, indicator |-> indicator, start |-> start, end |-> end,
     country |-> country, save |-> save, decimals |-> decimals, fault |-> fault]

to_flourish(indicator, start_yr, end_yr, country, save_csv, fault) ==
    LET df      == pivot_table(download(indicator, country, start_yr, end_yr))
        ci      == drop_aggregates(get_countries)
        merged  == flourish_columns(merge(ci, df))
        content == flourish_to_csv(FlourishCsv(indicator), merged)
    IN  /\ fault \in {"none", "download", "get_countries"}
                      \cup (IF save_csv THEN {"to_csv"} ELSE {})
        /\ call' = Call("to_flourish", indicator, start_yr, end_yr, country,
                        save_csv, 1, fault)
        /\ status' = Raised(fault)
        /\ df_merged' = IF fault = "none" THEN merged ELSE <<>>
        /\ written' = save_file(save_csv, fault, content)
        /\ files' = disk_after(files, written')
        /\ temp_df' = NoFrame
        /\ chart' = NoChart
        /\ UNCHANGED <<source, country_info, indicator_name>>

get_wb_data(indicator, start_yr, end_yr, country, save_csv, fault) ==
    \E frame \in GetWbData(indicator, country, start_yr, end_yr) :
        /\ fault \in {"none", "download"} \cup (IF save_csv THEN {"to_csv"} ELSE {})
        /\ call' = Call("get_wb_data", indicator, start_yr, end_yr, country,
                        save_csv, 1, fault)
        /\ indicator_name' = set_indicator_name(indicator_name, indicator)
        /\ status' = Raised(fault)
        /\ temp_df' = IF fault = "none" THEN frame ELSE NoFrame
        /\ written' = save_file(save_csv, fault,
                                to_csv(IndicatorCsv(indicator), frame, FALSE))
        /\ files' = disk_after(files, written')
        /\ df_merged' = <<>>
        /\ chart' = NoChart
        /\ UNCHANGED <<source, country_info>>

plot_line_chart(indicator, start_yr, end_yr, country, save, fault) ==
    \E df \in GetWbData(indicator, country, start_yr, end_yr) :
        /\ fault \in {"none", "download"} \cup (IF save THEN {"savefig"} ELSE {})
        /\ call' = Call("plot_line_chart", indicator, start_yr, end_yr, country,
                        save, 1, fault)
        /\ indicator_name' = set_indicator_name(indicator_name, indicator)
        /\ status' = Raised(fault)
        /\ chart' = IF fault = "download" THEN NoChart
                    ELSE [kind |-> "line", points |-> SeqToSet(df.rows),
                          bars |-> <<>>, labels |-> <<>>, shown |-> fault = "none"]
        /\ written' = save_file(save, fault,
                                [name |-> LinePng, header |-> <<>>, rows |-> <<>>])
        /\ files' = disk_after(files, written')
        /\ temp_df' = NoFrame
        /\ df_merged' = <<>>
        /\ UNCHANGED <<source, country_info>>

plot_bar_chart(indicator, year, country, decimals, save, fault) ==
    \E frame \in GetWbData(indicator, country, year, year) :
        LET df    == {r \in SeqToSet(frame.rows) : r.Year = default_year(year, frame.rows)}
            \* plt.xlim(right=nan) raises on an empty frame, before savefig
            empty == df = {}
        IN  \E bars \in sort_values_desc(df) :
              /\ fault \in {"none", "download"}
                            \cup (IF save /\ ~empty THEN {"savefig"} ELSE {})
              /\ call' = Call("plot_bar_chart", indicator, year, year, country,
                              save, decimals, fault)
              /\ indicator_name' = set_indicator_name(indicator_name, indicator)
              /\ status' = IF fault = "none" /\ empty THEN "ValueError"
                           ELSE Raised(fault)
              /\ chart' = IF fault = "download" THEN NoChart
                          ELSE [kind |-> "bar", points |-> {}, bars |-> bars,
                                labels |-> label_values(df, decimals),
                                shown |-> fault = "none" /\ ~empty]
              /\ written' = save_file(save /\ ~empty, fault,
                                      [name |-> BarPng, header |-> <<>>, rows |-> <<>>])
              /\ files' = disk_after(files, written')
              /\ temp_df' = NoFrame
              /\ df_merged' = <<>>
              /\ UNCHANGED <<source, country_info>>

-----------------------------------------------------------------------------
(* Specifications *)

NoCall == Call("init", "", None, None, {}, FALSE, 1, "none")

Start ==
    /\ indicator_name = Undefined
    /\ files = {}
    /\ written = NoWrite
    /\ call = NoCall
    /\ status = "none"
    /\ df_merged = <<>>
    /\ temp_df = NoFrame
    /\ chart = NoChart

\* a process that imports the module, the remote source holding one location
\* and one year
Init ==
    /\ source \in SmallSources
    /\ country_info = MetaRows
    /\ Start

\* the same, for every observation set and every metadata table of the bounds
InitData ==
    /\ \/ source \in AllSources /\ country_info = MetaRows
       \/ source = DemoSource /\ country_info \in AllMetas
    /\ Start

ToFlourish ==
    \E indicator \in HeldIndicators, start_yr \in HeldYears, end_yr \in HeldYears,
       country \in Selectors, save_csv \in BOOLEAN,
       fault \in {"none", "download", "get_countries", "to_csv"} :
         to_flourish(indicator, start_yr, end_yr, country, save_csv, fault)

GetWbDataCall ==
    \E indicator \in HeldIndicators, start_yr \in HeldYears, end_yr \in HeldYears,
       country \in Selectors, save_csv \in BOOLEAN,
       fault \in {"none", "download", "to_csv"} :
         get_wb_data(indicator, start_yr, end_yr, country, save_csv, fault)

PlotLineChart ==
    \E indicator \in HeldIndicators, start_yr \in HeldYears, end_yr \in HeldYears,
       country \in Selectors, save \in BOOLEAN,
       fault \in {"none", "download", "savefig"} :
         plot_line_chart(indicator, start_yr, end_yr, country, save, fault)

PlotBarChart ==
    \E indicator \in HeldIndicators, year \in HeldYears \cup {None},
       country \in Selectors, decimals \in Decimals, save \in BOOLEAN,
       fault \in {"none", "download", "savefig"} :
         plot_bar_chart(indicator, year, country, decimals, save, fault)

Next == ToFlourish \/ GetWbDataCall \/ PlotLineChart \/ PlotBarChart

\* the first call of a process
FirstCall ==
    \/ call = NoCall /\ ToFlourish
    \/ call = NoCall /\ GetWbDataCall
    \/ call = NoCall /\ PlotLineChart
    \/ call = NoCall /\ PlotBarChart

\* any sequence of calls
Spec == Init /\ [][Next]_vars

\* one call in a fresh process, over every data set of the bounds
SpecData == InitData /\ [][FirstCall]_vars

-----------------------------------------------------------------------------
(* What the claims speak of *)

\* the years of the last call's request
CallYears == RequestYears(call.start, call.end)

\* the source's value of the last call's indicator for a (location, year) pair
ValueOf(c) == source[<<call.indicator, c[1], c[2]>>]

\* the (location, year) pairs of the last call's request that have a value
WithValue ==
    {c \in (call.country \cap HeldNames) \X CallYears : ValueOf(c) # NaN}

\* the locations of the observation table of the last call
ObservedNames == {c[1] : c \in WithValue}

\* the display names of the metadata, and of its entries that are no aggregate
MetaNames == {country_info[i].name : i \in DOMAIN country_info}

CountryNames ==
    {country_info[i].name :
        i \in {j \in DOMAIN country_info : country_info[j].region # "Aggregates"}}

MergedNames == {df_merged[i].name : i \in DOMAIN df_merged}

Returned(op) == call.op = op /\ status = "ok"

\* C1: the table to_flourish returns has no row whose region is "Aggregates"
C1_NoAggregatesRow ==
    call.op = "to_flourish" =>
        \A i \in DOMAIN df_merged : df_merged[i].region # "Aggregates"

\* to_flourish returned rows although an aggregate of the metadata has observations
C1_Witness ==
    /\ Returned("to_flourish")
    /\ df_merged # <<>>
    /\ \E i \in DOMAIN country_info :
          /\ country_info[i].region = "Aggregates"
          /\ country_info[i].name \in ObservedNames

\* C2: the index of the table get_wb_data returns is exactly the set of the
\* requested years that have a non-missing value in the observations
C2_IndexIsYearsWithValue ==
    Returned("get_wb_data") =>
        {temp_df.rows[i].Year : i \in DOMAIN temp_df.rows}
            = {str(c[2]) : c \in WithValue}

\* get_wb_data returned a table although one requested year has no value at all
C2_Witness ==
    /\ Returned("get_wb_data")
    /\ temp_df.rows # <<>>
    /\ \E y \in CallYears : \A c \in WithValue : c[2] # y

\* C3: the file get_wb_data writes carries the Year of every row as its index,
\* next to the Region and the value columns
C3_FileKeepsYear ==
    (Returned("get_wb_data") /\ call.save) =>
        /\ written.header = <<"Year", "Region", call.indicator>>
        /\ \A i \in DOMAIN temp_df.rows :
              written.rows[i] = <<temp_df.rows[i].Year, temp_df.rows[i].Region,
                                  temp_df.rows[i].value>>

\* C4: with year None, plot_bar_chart charts the rows of the latest year that
\* has a value in the data of the request, one bar per location of that year
C4_BarsOfLatestYear ==
    (call.op = "plot_bar_chart" /\ call.start = None /\ chart.kind = "bar") =>
        LET latest == {c \in WithValue : \A d \in WithValue : d[2] <= c[2]}
        IN  /\ Len(chart.bars) = Cardinality(latest)
            /\ \A c \in latest : \E i \in DOMAIN chart.bars :
                  chart.bars[i] = [Region |-> c[1], Year |-> str(c[2]),
                                   value |-> ValueOf(c)]

\* a bar chart for year None over data of two years, the latest with fewer rows
C4_Witness ==
    /\ Returned("plot_bar_chart")
    /\ call.start = None
    /\ Cardinality({c[2] : c \in WithValue}) >= 2
    /\ chart.bars # <<>>
    /\ Len(chart.bars) < Cardinality(ObservedNames)

\* C5: a call in which the remote source or the sink raises ends with that
\* error, returns and shows nothing, and leaves the files as they were
C5_ErrorWritesNothing ==
    [][call'.fault # "none" =>
          /\ status' = Raised(call'.fault)
          /\ status' \in {"DataUnavailable", "IOFailure"}
          /\ written' = NoWrite
          /\ files' = files
          /\ df_merged' = <<>>
          /\ temp_df' = NoFrame
          /\ ~chart'.shown]_vars

\* the sink raised in a call that was to save, after an earlier call had saved
C5_Witness ==
    /\ call.fault = "to_csv"
    /\ status = "IOFailure"
    /\ files # {}
    /\ IndicatorCsv(call.indicator) \notin files

\* C6, as claimed: a location of the observation table that no metadata entry
\* names is a row of the result, its region blank
C6_UnmatchedKeptBlank ==
    Returned("to_flourish") =>
        \A n \in ObservedNames \ MetaNames :
            \E i \in DOMAIN df_merged :
                df_merged[i].name = n /\ df_merged[i].region = ""

\* C6, amended: such a location is a row neither of the result nor of the
\* persisted file, and the call raises no error
C6_UnmatchedDropped ==
    (call.op = "to_flourish" /\ call.fault = "none") =>
        /\ status = "ok"
        /\ \A n \in ObservedNames \ MetaNames :
              /\ n \notin MergedNames
              /\ \A i \in DOMAIN written.rows : written.rows[i][1] # n

\* to_flourish saved a table with rows while a location with values has no metadata
C6_Witness ==
    /\ Returned("to_flourish")
    /\ call.save
    /\ written.rows # <<>>
    /\ ObservedNames \ MetaNames # {}

\* C7: the rows of the table to_flourish returns are the locations whose
\* observation name equals the display name of a metadata entry that is no
\* aggregate; the other observation and metadata rows are dropped, no error
C7_RowsAreExactMatches ==
    (call.op = "to_flourish" /\ call.fault = "none") =>
        /\ status = "ok"
        /\ \A i \in DOMAIN df_merged :
              df_merged[i].name \in ObservedNames \cap CountryNames
        /\ \A n \in ObservedNames \ CountryNames : n \notin MergedNames
        /\ \A n \in MetaNames \ ObservedNames : n \notin MergedNames

\* to_flourish returned rows, and dropped an observation row and a metadata row
C7_Witness ==
    /\ Returned("to_flourish")
    /\ df_merged # <<>>
    /\ ObservedNames \ CountryNames # {}
    /\ CountryNames \ ObservedNames # {}

C9_OneRowPerPairSorted ==
    Returned("get_wb_data") =>
        /\ Len(temp_df.rows) = Cardinality(WithValue)
        /\ \A c \in WithValue : \E i \in DOMAIN temp_df.rows :
              temp_df.rows[i] = [Region |-> c[1], Year |-> str(c[2]),
                                 value |-> ValueOf(c)]
        /\ temp_df.index = <<"Year">>
        /\ temp_df.columns = <<"Region", call.indicator>>
        /\ \A i, j \in DOMAIN temp_df.rows :
              i < j => StrLeq(temp_df.rows[i].Region, temp_df.rows[j].Region)

\* get_wb_data returned rows of two regions, one of them with two years
C9_Witness ==
    /\ Returned("get_wb_data")
    /\ Len(temp_df.rows) >= 3
    /\ Cardinality(ObservedNames) = 2

\* C10: the bars do not increase in value, and the i-th label is the rounded
\* value of the i-th bar
C10_BarsDescendLabelsMatch ==
    (call.op = "plot_bar_chart" /\ chart.kind = "bar") =>
        /\ \A i, j \in DOMAIN chart.bars :
              i < j => chart.bars[i].value >= chart.bars[j].value
        /\ Len(chart.labels) = Len(chart.bars)
        /\ \A i \in DOMAIN chart.bars :
              chart.labels[i] = round(chart.bars[i].value, call.decimals)

\* a bar chart of two regions with different values, labelled to one decimal
C10_Witness ==
    /\ Returned("plot_bar_chart")
    /\ call.decimals = 1
    /\ Len(chart.bars) = 2
    /\ chart.bars[1].value > chart.bars[2].value


====
